---- MODULE Spec2Model ----
(***************************************************************************)
(* A model of nlp_learning_assistant.py: the keyphrase extractor, the      *)
(* location extractor, the frequency ranker, the similarity finder and the *)
(* module-level interaction loop that drives them.                         *)
(*                                                                         *)
(* Text is a sequence of one-character strings, so that joining, trimming, *)
(* splitting and case conversion are computed and not assumed.             *)
(***************************************************************************)
EXTENDS Integers, Sequences, FiniteSets, TLC

VARIABLES
    pc,             \* position of the running script (or of the unit under test)
    statement,      \* the parsed user input (a spaCy Doc): a sequence of tokens
    keyphrase,      \* the extractor's result: a phrase or the failure signal
    wiki_page,      \* NoPage (the script's False) or the fetched page object
    page_doc,       \* doc of line 140, the parsed article: its named-entity spans
    locations,      \* list returned by location_extractor
    ranked,         \* list returned by sort_locations_by_frequency
    similar_words,  \* set returned by find_similar_words
    scores,         \* the parser's similarity score of each cleaned article word
    out,            \* the console: the sequence of result lines printed so far
    fetched,        \* history: the topics get_wiki_article has been called with
    handed,         \* history: the topics find_similar_words has been called with
    last,           \* history: how the latest fetch ended, and whether the latest
                    \* loop pass asked the user for input
    stages          \* history: the HAVE_ARTICLE stages that have completed

vars == <<pc, statement, keyphrase, wiki_page, page_doc, locations, ranked,
          similar_words, scores, out, fetched, handed, last, stages>>

(***************************************************************************)
(* Bounds of the model.                                                    *)
(***************************************************************************)
MaxDocLen == 4      \* tokens in a parsed utterance
MaxListLen == 5     \* entries in a location list handed to the ranker

(***************************************************************************)
(* Text.                                                                   *)
(***************************************************************************)
LowerLetters == <<"a", "b", "c">>
UpperLetters == <<"A", "B", "C">>
Digits == {"1"}
Whitespace == {" ", "\n"}

Letters == {LowerLetters[i] : i \in DOMAIN LowerLetters}
              \cup {UpperLetters[i] : i \in DOMAIN UpperLetters}

IndexIn(seq, c) == CHOOSE i \in DOMAIN seq : seq[i] = c

\* str.lower(), one character
LowerCh(c) ==
    IF \E i \in DOMAIN UpperLetters : UpperLetters[i] = c
    THEN LowerLetters[IndexIn(UpperLetters, c)] ELSE c

\* str.upper(), one character
UpperCh(c) ==
    IF \E i \in DOMAIN LowerLetters : LowerLetters[i] = c
    THEN UpperLetters[IndexIn(LowerLetters, c)] ELSE c

\* str.lower()
Lower(s) == [i \in DOMAIN s |-> LowerCh(s[i])]

\* str.title(): a cased character is upper-cased when it follows an uncased
\* character (or starts the string) and lower-cased when it follows a cased one.
Title(s) ==
    [i \in DOMAIN s |->
        IF i > 1 /\ s[i - 1] \in Letters THEN LowerCh(s[i]) ELSE UpperCh(s[i])]

\* str.lstrip()
RECURSIVE LStrip(_)
LStrip(s) ==
    IF s # <<>> /\ Head(s) \in Whitespace THEN LStrip(Tail(s)) ELSE s

\* str.rstrip()
RECURSIVE RStrip(_)
RStrip(s) ==
    IF s # <<>> /\ s[Len(s)] \in Whitespace
    THEN RStrip(SubSeq(s, 1, Len(s) - 1)) ELSE s

\* str.strip()
Strip(s) == RStrip(LStrip(s))

\* ' '.join(list)
RECURSIVE JoinSp(_)
JoinSp(list) ==
    IF list = <<>> THEN <<>>
    ELSE IF Len(list) = 1 THEN list[1]
    ELSE list[1] \o <<" ">> \o JoinSp(Tail(list))

\* str.split(" "): the pieces between single spaces, empty pieces included
RECURSIVE SplitSp(_, _)
SplitSp(s, piece) ==
    IF s = <<>> THEN <<piece>>
    ELSE IF Head(s) = " " THEN <<piece>> \o SplitSp(Tail(s), <<>>)
    ELSE SplitSp(Tail(s), Append(piece, Head(s)))

\* the members of a list, as a set
Range(list) == {list[i] : i \in DOMAIN list}

(***************************************************************************)
(* keyphrase_extractor.                                                    *)
(*                                                                         *)
(* A token is [text, pos, dep, head]; head is the index of the token's     *)
(* syntactic head (a root is its own head).  The result is a phrase        *)
(* [found |-> TRUE, text |-> ...] or NoPhrase, the function's False.       *)
(***************************************************************************)
noun_part_of_speech_list == {"NOUN", "PROPN"}

NoPhrase == [found |-> FALSE, text |-> <<>>]
Phrase(s) == [found |-> TRUE, text |-> s]

\* Python's truth value of the extractor's result: False and "" are falsy
Truthy(k) == k.found /\ k.text # <<>>

\* token.children: indices of the tokens headed by token i, in document order
children(doc, i) ==
    SelectSeq([j \in 1..Len(doc) |-> j], LAMBDA j : j # i /\ doc[j].head = i)

\* a variant of token.lefts that yields the right children as well
lefts_with_rights(doc, i) == children(doc, i)

\* token.lefts: the children that precede the token
lefts(doc, i) == SelectSeq(children(doc, i), LAMBDA j : j < i)

TextsOf(doc, idxs) == [k \in DOMAIN idxs |-> doc[idxs[k]].text]

\* line 33: the returned string of the prepositional-object branch
pobj_phrase(doc, i) ==
    LStrip(JoinSp(TextsOf(doc, lefts(doc, i))) \o <<" ">> \o doc[i].text)

\* a variant of the direct-object branch that drops the dependency filter
dobj_phrase_unfiltered(doc, i) ==
    JoinSp(TextsOf(doc, children(doc, i))) \o <<" ">> \o doc[i].text

\* lines 47-48: the returned string of the direct-object branch
dobj_phrase(doc, i) ==
    JoinSp(TextsOf(doc, SelectSeq(children(doc, i),
                LAMBDA j : doc[j].dep \in {"compound", "amod"})))
        \o <<" ">> \o doc[i].text

\* a variant of the reverse scan that drops the part-of-speech test
RECURSIVE reverse_scan_any_pos(_, _)
reverse_scan_any_pos(doc, i) ==
    IF i < 1 THEN NoPhrase
    ELSE IF doc[i].dep = "dobj" THEN Phrase(dobj_phrase(doc, i))
    ELSE reverse_scan_any_pos(doc, i - 1)

\* lines 38-51: for token in reversed(doc)
RECURSIVE reverse_scan(_, _)
reverse_scan(doc, i) ==
    IF i < 1 THEN NoPhrase
    ELSE IF doc[i].pos \notin noun_part_of_speech_list THEN reverse_scan(doc, i - 1)
    ELSE IF doc[i].dep = "dobj" THEN Phrase(dobj_phrase(doc, i))
    ELSE reverse_scan(doc, i - 1)

\* lines 23-33: for token in doc
RECURSIVE forward_scan(_, _)
forward_scan(doc, i) ==
    IF i > Len(doc) THEN reverse_scan(doc, Len(doc))
    ELSE IF doc[i].pos \notin noun_part_of_speech_list THEN forward_scan(doc, i + 1)
    ELSE IF doc[i].dep = "pobj" THEN Phrase(pobj_phrase(doc, i))
    ELSE forward_scan(doc, i + 1)

keyphrase_extractor(doc) == forward_scan(doc, 1)

(***************************************************************************)
(* The parsed utterances the extractor is exercised on: every dependency   *)
(* forest of up to MaxDocLen tokens.  Word tokens carry the word of their  *)
(* position (the extractor never compares texts, so distinct words lose    *)
(* nothing and make every reordering visible); a whitespace token carries  *)
(* " " and is tagged SPACE/dep, as the parser tags it.                     *)
(***************************************************************************)
WordAt == <<"a", "b", "c", "A", "B", "C">>
PosTags == {"NOUN", "PROPN", "PRON"}
DepLabels == {"pobj", "dobj", "compound", "amod", "det"}

\* the tokens position i can hold when its head is position h
TokensAt(i, h) ==
    IF h = i
    THEN {[text |-> <<WordAt[i]>>, pos |-> p, dep |-> "ROOT", head |-> i] :
            p \in PosTags}
    ELSE {[text |-> <<WordAt[i]>>, pos |-> p, dep |-> d, head |-> h] :
            p \in PosTags, d \in DepLabels}
         \cup {[text |-> <<" ">>, pos |-> "SPACE", dep |-> "dep", head |-> h]}

\* following heads from i reaches a root within n steps
RECURSIVE ReachesRoot(_, _, _)
ReachesRoot(heads, i, n) ==
    \/ heads[i] = i
    \/ n > 0 /\ ReachesRoot(heads, heads[i], n - 1)

\* the head assignments of n tokens that form a forest
Forests(n) ==
    {heads \in [1..n -> 1..n] : \A i \in 1..n : ReachesRoot(heads, i, n)}

\* the utterances whose first k tokens are headed as heads says
RECURSIVE DocsHeaded(_, _)
DocsHeaded(heads, k) ==
    IF k = 0 THEN {<<>>}
    ELSE {Append(doc, t) : doc \in DocsHeaded(heads, k - 1),
                           t \in TokensAt(k, heads[k])}

\* doc is a parsed utterance of at most MaxDocLen tokens
IsDoc(doc) ==
    \E n \in 0..MaxDocLen : \E heads \in Forests(n) : doc \in DocsHeaded(heads, n)

(***************************************************************************)
(* The values the other variables keep while one function is exercised.    *)
(***************************************************************************)
NoPage == [page |-> FALSE, exists |-> FALSE, topic |-> NoPhrase, text |-> <<>>]

NoFetch == [fetch |-> "none", prompted |-> FALSE]

Idle ==
    /\ wiki_page = NoPage
    /\ page_doc = <<>>
    /\ locations = <<>>
    /\ ranked = <<>>
    /\ similar_words = {}
    /\ scores = <<>>
    /\ out = <<>>
    /\ fetched = {}
    /\ handed = {}
    /\ last = NoFetch
    /\ stages = {}

(***************************************************************************)
(* SpecExtract: keyphrase_extractor applied to every utterance of Docs.    *)
(***************************************************************************)
InitExtract ==
    /\ pc = "call"
    /\ IsDoc(statement)
    /\ keyphrase = NoPhrase
    /\ Idle

Extract ==
    /\ pc = "call"
    /\ keyphrase' = keyphrase_extractor(statement)
    /\ pc' = "returned"
    /\ UNCHANGED <<statement, wiki_page, page_doc, locations, ranked, similar_words,
                   scores, out, fetched, handed, last, stages>>

NextExtract == Extract

SpecExtract == InitExtract /\ [][NextExtract]_vars

(***************************************************************************)
(* What the claims about keyphrase_extractor say, stated from the parse    *)
(* and not from the scans.                                                 *)
(***************************************************************************)
Min(S) == CHOOSE x \in S : \A y \in S : x <= y
Max(S) == CHOOSE x \in S : \A y \in S : x >= y

\* the members of a set of indices, ascending
RECURSIVE Ascending(_)
Ascending(S) == IF S = {} THEN <<>> ELSE <<Min(S)>> \o Ascending(S \ {Min(S)})

IsNoun(doc, i) == doc[i].pos = "NOUN" \/ doc[i].pos = "PROPN"
PobjNouns(doc) == {i \in DOMAIN doc : IsNoun(doc, i) /\ doc[i].dep = "pobj"}
DobjNouns(doc) == {i \in DOMAIN doc : IsNoun(doc, i) /\ doc[i].dep = "dobj"}

LeftChildren(doc, i) == {j \in DOMAIN doc : j < i /\ doc[j].head = i}
Qualifiers(doc, i) ==
    {j \in DOMAIN doc : j # i /\ doc[j].head = i
                        /\ (doc[j].dep = "compound" \/ doc[j].dep = "amod")}
OtherChildren(doc, i) ==
    {j \in DOMAIN doc : j # i /\ doc[j].head = i} \ Qualifiers(doc, i)

\* the texts, each followed by one space
RECURSIVE SpaceAfterEach(_)
SpaceAfterEach(texts) ==
    IF texts = <<>> THEN <<>>
    ELSE SpaceAfterEach(SubSeq(texts, 1, Len(texts) - 1))
            \o texts[Len(texts)] \o <<" ">>

\* s from its first character that is not whitespace
LeadingTrimmed(s) ==
    LET keep == {k \in DOMAIN s : s[k] \notin Whitespace}
    IN  IF keep = {} THEN <<>> ELSE SubSeq(s, Min(keep), Len(s))

\* the words of s: its non-empty pieces between spaces
WordsOf(s) == SelectSeq(SplitSp(s, <<>>), LAMBDA w : w # <<>>)

\* C5: when some NOUN/PROPN token is a pobj, the result is, for the first such
\* token, the texts of its left children in document order joined by spaces,
\* then a space and the token's text, without leading whitespace; it is not
\* empty; and this is so whether or not a direct-object noun is present.
C5_PobjRule ==
    (pc = "returned" /\ PobjNouns(statement) # {}) =>
        LET i == Min(PobjNouns(statement))
            joined == SpaceAfterEach(
                        TextsOf(statement, Ascending(LeftChildren(statement, i))))
            expected == LeadingTrimmed(
                          (IF joined = <<>> THEN <<" ">> ELSE joined)
                              \o statement[i].text)
        IN  /\ keyphrase.found
            /\ keyphrase.text = expected
            /\ keyphrase.text # <<>>

\* C5 happens: the first pobj noun has two left children, a direct-object
\* noun is present as well, and the extractor has returned all three words
C5_Witness ==
    /\ pc = "returned"
    /\ PobjNouns(statement) # {}
    /\ DobjNouns(statement) # {}
    /\ LET i == Min(PobjNouns(statement))
       IN  /\ Cardinality(LeftChildren(statement, i)) = 2
           /\ Len(keyphrase.text) = 5

\* C6: with no pobj noun and some NOUN/PROPN dobj, the result names the last
\* such token: its words are the texts of the token's compound/amod children
\* in document order followed by the token's text, and no child with another
\* dependency label contributes a word.
C6_DobjRule ==
    (pc = "returned" /\ PobjNouns(statement) = {} /\ DobjNouns(statement) # {}) =>
        LET i == Max(DobjNouns(statement))
        IN  /\ keyphrase.found
            /\ WordsOf(keyphrase.text) =
                  TextsOf(statement, Ascending(Qualifiers(statement, i)))
                      \o <<statement[i].text>>
            /\ \A j \in OtherChildren(statement, i) :
                  statement[j].text \notin Range(WordsOf(keyphrase.text))

\* C6 happens: two direct-object nouns, the last of them with a qualifying
\* child and a child of another label, and the extractor has returned
C6_Witness ==
    /\ pc = "returned"
    /\ PobjNouns(statement) = {}
    /\ Cardinality(DobjNouns(statement)) = 2
    /\ LET i == Max(DobjNouns(statement))
       IN  /\ Qualifiers(statement, i) # {}
           /\ OtherChildren(statement, i) # {}
           /\ Len(WordsOf(keyphrase.text)) = 2

\* C7: the extractor returns the failure signal exactly when no NOUN/PROPN
\* token is a pobj and none is a dobj; every other result is a non-empty string.
C7_FailureSignal ==
    pc = "returned" =>
        /\ (PobjNouns(statement) = {} /\ DobjNouns(statement) = {})
              <=> keyphrase = NoPhrase
        /\ keyphrase # NoPhrase => (keyphrase.found /\ Len(keyphrase.text) > 0)

\* C7 happens: the only pobj and dobj tokens are pronouns, and the extractor
\* has returned the failure signal
C7_Witness ==
    /\ pc = "returned"
    /\ \E i, j \in DOMAIN statement :
          /\ statement[i].pos = "PRON" /\ statement[i].dep = "pobj"
          /\ statement[j].pos = "PRON" /\ statement[j].dep = "dobj"
    /\ keyphrase = NoPhrase

(***************************************************************************)
(* sort_locations_by_frequency.                                            *)
(***************************************************************************)
\* Counter(location_list).items(): one [key, count] per distinct value, in
\* the order the values are first seen
RECURSIVE counter_items(_, _)
counter_items(list, items) ==
    IF list = <<>> THEN items
    ELSE LET x == Head(list)
             at == {k \in DOMAIN items : items[k].key = x}
         IN  IF at = {}
             THEN counter_items(Tail(list), Append(items, [key |-> x, count |-> 1]))
             ELSE counter_items(Tail(list),
                    [items EXCEPT ![CHOOSE k \in at : TRUE].count = @ + 1])

\* a variant of the sort that leaves out reverse = True
RECURSIVE sorted_ascending(_, _)
sorted_ascending(items, result) ==
    IF items = <<>> THEN result
    ELSE LET it == Head(items)
             after == {k \in DOMAIN result : result[k].count > it.count}
             at == IF after = {} THEN Len(result) + 1
                   ELSE CHOOSE k \in after : \A m \in after : k <= m
         IN  sorted_ascending(Tail(items),
                SubSeq(result, 1, at - 1) \o <<it>> \o SubSeq(result, at, Len(result)))

\* sorted(items, key = count, reverse = True): a stable sort, so an item goes
\* behind the items already placed whose count is at least its own
RECURSIVE sorted_by_count(_, _)
sorted_by_count(items, result) ==
    IF items = <<>> THEN result
    ELSE LET it == Head(items)
             after == {k \in DOMAIN result : result[k].count < it.count}
             at == IF after = {} THEN Len(result) + 1
                   ELSE CHOOSE k \in after : \A m \in after : k <= m
         IN  sorted_by_count(Tail(items),
                SubSeq(result, 1, at - 1) \o <<it>> \o SubSeq(result, at, Len(result)))

sort_locations_by_frequency(location_list) ==
    LET sorted == sorted_by_count(counter_items(location_list, <<>>), <<>>)
    IN  [k \in DOMAIN sorted |-> sorted[k].key]

(***************************************************************************)
(* SpecRank: sort_locations_by_frequency applied to every list of up to    *)
(* MaxListLen of three names.                                              *)
(***************************************************************************)
Names == {<<"A">>, <<"B">>, <<"A", " ", "B">>}

InitRank ==
    /\ pc = "call"
    /\ \E n \in 0..MaxListLen : locations \in [1..n -> Names]
    /\ statement = <<>>
    /\ keyphrase = NoPhrase
    /\ wiki_page = NoPage
    /\ page_doc = <<>>
    /\ ranked = <<>>
    /\ similar_words = {}
    /\ scores = <<>>
    /\ out = <<>>
    /\ fetched = {}
    /\ handed = {}
    /\ last = NoFetch
    /\ stages = {}

Rank ==
    /\ pc = "call"
    /\ ranked' = sort_locations_by_frequency(locations)
    /\ pc' = "returned"
    /\ UNCHANGED <<statement, keyphrase, wiki_page, page_doc, locations,
                   similar_words, scores, out, fetched, handed, last, stages>>

NextRank == Rank

SpecRank == InitRank /\ [][NextRank]_vars

\* occurrences of x in a list
Occurrences(list, x) == Cardinality({k \in DOMAIN list : list[k] = x})

\* C8: the ranked list holds each distinct input string exactly once and
\* nothing else, and no string stands before one that occurs more often.
C8_RankedByFrequency ==
    pc = "returned" =>
        /\ Range(ranked) = Range(locations)
        /\ \A i, j \in DOMAIN ranked : i # j => ranked[i] # ranked[j]
        /\ \A i, j \in DOMAIN ranked :
              i < j => Occurrences(locations, ranked[i]) >= Occurrences(locations, ranked[j])

\* C8 happens: three distinct names with counts 1, 2, 2 given least frequent
\* first, and the ranker has moved the least frequent to the end
C8_Witness ==
    /\ pc = "returned"
    /\ Len(locations) = 5
    /\ Len(ranked) = 3
    /\ Occurrences(locations, locations[1]) = 1
    /\ ranked[3] = locations[1]

(***************************************************************************)
(* location_extractor.                                                     *)
(*                                                                         *)
(* The parsed article is the sequence of its named-entity spans; a span is *)
(* a sequence of tokens [text, ent_type], all carrying the span's label.   *)
(***************************************************************************)
\* ent.text
ent_text(ent) == JoinSp([k \in DOMAIN ent |-> ent[k].text])

\* lines 82-84: for word in ent, from token k on
RECURSIVE ent_locations(_, _)
ent_locations(ent, k) ==
    IF k > Len(ent) THEN <<>>
    ELSE (IF ent[k].ent_type = "GPE" THEN <<Title(ent_text(ent))>> ELSE <<>>)
            \o ent_locations(ent, k + 1)

\* lines 80-85: for ent in wiki_page.ents
RECURSIVE location_extractor(_)
location_extractor(ents) ==
    IF ents = <<>> THEN <<>>
    ELSE ent_locations(Head(ents), 1) \o location_extractor(Tail(ents))

(***************************************************************************)
(* find_similar_words.  Similarity is the parser's: sim maps each cleaned  *)
(* word to its score against the topic phrase, in hundredths.              *)
(***************************************************************************)
Threshold == 80
TopN == 10

\* line 111: re.sub(r"[^a-zA-Z0-9 ]", "", word)
clean(word) == SelectSeq(word, LAMBDA c : c \in Letters \cup Digits \cup {" "})

\* lines 108-109: list(set(wiki_page.text.split(" ")))
text_array(text) == Range(SplitSp(text, <<>>))

\* line 112: the test a word must pass
retained(word, phrase, sim) ==
    /\ Lower(clean(word)) # Lower(phrase.text)
    /\ sim[clean(word)] > Threshold

find_similar_words(page, phrase, sim) ==
    {Strip(Title(clean(w))) : w \in {x \in text_array(page.text) : retained(x, phrase, sim)}}

(***************************************************************************)
(* The interaction loop (lines 118-149).                                   *)
(***************************************************************************)
MaxEnts == 2        \* named-entity spans in a parsed article

\* what the user may type, parsed: "tell wild animals" (pobj with a left
\* child), "eat food" (dobj without qualifiers), "about C" (pobj alone),
\* "hello" (no object) and the empty line
Corpus ==
    { << [text |-> <<"a">>, pos |-> "VERB", dep |-> "ROOT", head |-> 1],
         [text |-> <<"b">>, pos |-> "ADJ", dep |-> "amod", head |-> 3],
         [text |-> <<"c">>, pos |-> "NOUN", dep |-> "pobj", head |-> 1] >>,
      << [text |-> <<"a">>, pos |-> "VERB", dep |-> "ROOT", head |-> 1],
         [text |-> <<"b">>, pos |-> "NOUN", dep |-> "dobj", head |-> 1] >>,
      << [text |-> <<"a">>, pos |-> "ADP", dep |-> "ROOT", head |-> 1],
         [text |-> <<"C">>, pos |-> "PROPN", dep |-> "pobj", head |-> 1] >>,
      << [text |-> <<"a">>, pos |-> "INTJ", dep |-> "ROOT", head |-> 1] >>,
      << >> }

\* article bodies: "b C.", "c  B\n" and the empty text
Texts ==
    { <<"b", " ", "C", ".">>,
      <<"c", " ", " ", "B", "\n">>,
      << >> }

\* named-entity spans the parser may find in an article
Ents ==
    { << [text |-> <<"a">>, ent_type |-> "GPE"] >>,
      << [text |-> <<"a">>, ent_type |-> "GPE"], [text |-> <<"b">>, ent_type |-> "GPE"] >>,
      << [text |-> <<"c">>, ent_type |-> "ORG"] >> }

\* similarity scores the parser may give: at the threshold and just above it
Scores == {Threshold, Threshold + 1}

\* the orders in which the members of a set may be listed
Listings(S) ==
    {l \in [1..Cardinality(S) -> S] : \A i, j \in DOMAIN l : i # j => l[i] # l[j]}

Line(kind, text) == [kind |-> kind, text |-> text]
LinesOf(kind, texts) == [k \in DOMAIN texts |-> Line(kind, texts[k])]

\* line 60: the page object get_wiki_article returns, once exists() has
\* asked the service about it
get_wiki_article(phrase, exists, text) ==
    [page |-> TRUE, exists |-> exists, topic |-> phrase, text |-> text]

\* a variant of line 133 that takes every page as found
page_found_always(page) == TRUE

\* line 133: wiki_page.exists()
page_found(page) == page.exists

\* a variant of lines 134-136 that leaves out wiki_page = False
after_not_found_keep(page) == page

\* line 136: wiki_page = False
after_not_found(page) == NoPage

\* lines 62-70: the lines print_wiki_summary prints
print_wiki_summary(page) ==
    << Line("Page Title", <<>>), Line("Page Summary", <<>>), Line("Page URL", <<>>) >>

\* lines 118-122
Init ==
    /\ pc = "topic_loop"
    /\ statement \in Corpus
    /\ keyphrase = NoPhrase
    /\ wiki_page = NoPage
    /\ page_doc = <<>>
    /\ locations = <<>>
    /\ ranked = <<>>
    /\ similar_words = {}
    /\ scores = <<>>
    /\ out = <<>>
    /\ fetched = {}
    /\ handed = {}
    /\ last = NoFetch
    /\ stages = {}

results == <<page_doc, locations, ranked, similar_words, scores, out, handed, stages>>

\* lines 125-128: one pass of the extraction loop
TopicLoop ==
    /\ pc = "topic_loop"
    /\ ~ Truthy(keyphrase)
    /\ keyphrase' = keyphrase_extractor(statement)
    /\ IF ~ Truthy(keyphrase')
       THEN statement' \in Corpus
       ELSE statement' = statement
    /\ last' = [last EXCEPT !.prompted = ~ Truthy(keyphrase')]
    /\ UNCHANGED <<pc, wiki_page, fetched, results>>

\* line 128: input() meets the end of the input
TopicLoopFails ==
    /\ pc = "topic_loop"
    /\ ~ Truthy(keyphrase)
    /\ keyphrase' = keyphrase_extractor(statement)
    /\ ~ Truthy(keyphrase')
    /\ last' = [last EXCEPT !.prompted = TRUE]
    /\ pc' = "crashed"
    /\ UNCHANGED <<statement, wiki_page, fetched, results>>

\* line 125: the extraction loop ends
TopicLoopEnds ==
    /\ pc = "topic_loop"
    /\ Truthy(keyphrase)
    /\ pc' = "article_loop"
    /\ UNCHANGED <<statement, keyphrase, wiki_page, fetched, last, results>>

\* lines 131-136: one pass of the article loop
ArticleLoop ==
    /\ pc = "article_loop"
    /\ ~ wiki_page.page
    /\ fetched' = fetched \cup {keyphrase}
    /\ \E exists \in BOOLEAN, text \in Texts :
          LET page == get_wiki_article(keyphrase, exists, IF exists THEN text ELSE <<>>)
          IN  IF ~ page_found(page)
              THEN /\ statement' \in Corpus
                   /\ keyphrase' = keyphrase_extractor(statement')
                   /\ wiki_page' = after_not_found(page)
                   /\ last' = [fetch |-> IF exists THEN "found" ELSE "missing",
                               prompted |-> TRUE]
              ELSE /\ wiki_page' = page
                   /\ last' = [fetch |-> IF exists THEN "found" ELSE "missing",
                               prompted |-> FALSE]
                   /\ UNCHANGED <<statement, keyphrase>>
    /\ UNCHANGED <<pc, results>>

\* lines 132-134: the fetch fails, or input() meets the end of the input
ArticleLoopFails ==
    /\ pc = "article_loop"
    /\ ~ wiki_page.page
    /\ fetched' = fetched \cup {keyphrase}
    /\ \/ last' = [fetch |-> "failed", prompted |-> FALSE]
       \/ last' = [fetch |-> "missing", prompted |-> TRUE]
    /\ pc' = "crashed"
    /\ UNCHANGED <<statement, keyphrase, wiki_page, results>>

\* line 131: the article loop ends
ArticleLoopEnds ==
    /\ pc = "article_loop"
    /\ wiki_page.page
    /\ pc' = "print_summary"
    /\ UNCHANGED <<statement, keyphrase, wiki_page, fetched, last, results>>

\* line 138
PrintWikiSummary ==
    /\ pc = "print_summary"
    /\ out' = out \o print_wiki_summary(wiki_page)
    /\ pc' = "locate"
    /\ UNCHANGED <<statement, keyphrase, wiki_page, page_doc, locations, ranked,
                   similar_words, scores, fetched, handed, last, stages>>

\* line 138: reading the title, the summary or the URL of the page fails,
\* after the lines before it are printed
PrintWikiSummaryFails ==
    /\ pc = "print_summary"
    /\ \E n \in 0..2 : out' = out \o SubSeq(print_wiki_summary(wiki_page), 1, n)
    /\ pc' = "crashed"
    /\ UNCHANGED <<statement, keyphrase, wiki_page, page_doc, locations, ranked,
                   similar_words, scores, fetched, handed, last, stages>>

\* lines 140-141
Locate ==
    /\ pc = "locate"
    /\ \E n \in 0..MaxEnts : page_doc' \in [1..n -> Ents]
    /\ locations' = location_extractor(page_doc')
    /\ stages' = stages \cup {"location_extractor"}
    /\ pc' = "print_locations"
    /\ UNCHANGED <<statement, keyphrase, wiki_page, ranked, similar_words,
                   scores, out, fetched, handed, last>>

\* line 140: the parser fails on the article text
LocateFails ==
    /\ pc = "locate"
    /\ pc' = "crashed"
    /\ UNCHANGED <<statement, keyphrase, wiki_page, fetched, last, results>>

\* a variant of lines 143-145 that prints the locations as extracted, unranked
PrintLocationsUnranked ==
    /\ pc = "print_locations"
    /\ out' = out \o <<Line("Locations:", <<>>)>>
                  \o LinesOf("location",
                        SubSeq(locations, 1, IF Len(locations) < TopN THEN Len(locations) ELSE TopN))
    /\ pc' = "print_similar"
    /\ UNCHANGED <<statement, keyphrase, wiki_page, page_doc, locations, ranked,
                   similar_words, scores, fetched, handed, last, stages>>

\* lines 143-145
PrintLocations ==
    /\ pc = "print_locations"
    /\ ranked' = sort_locations_by_frequency(locations)
    /\ stages' = stages \cup {"sort_locations_by_frequency"}
    /\ out' = out \o <<Line("Locations:", <<>>)>>
                  \o LinesOf("location",
                        SubSeq(ranked', 1, IF Len(ranked') < TopN THEN Len(ranked') ELSE TopN))
    /\ pc' = "print_similar"
    /\ UNCHANGED <<statement, keyphrase, wiki_page, page_doc, locations,
                   similar_words, scores, fetched, handed, last>>

\* lines 147-149
PrintSimilar ==
    /\ pc = "print_similar"
    /\ keyphrase.found
    /\ handed' = handed \cup {keyphrase}
    /\ scores' \in [{clean(w) : w \in text_array(wiki_page.text)} -> Scores]
    /\ similar_words' = find_similar_words(wiki_page, keyphrase, scores')
    /\ stages' = stages \cup {"find_similar_words"}
    /\ \E listing \in Listings(similar_words') :
          out' = out \o <<Line("Similar words:", <<>>)>> \o LinesOf("similar", listing)
    /\ pc' = "done"
    /\ UNCHANGED <<statement, keyphrase, wiki_page, page_doc, locations, ranked,
                   fetched, last>>

\* lines 147-148: the heading is printed, then the parser fails on the topic
\* (as it does when the topic is False) or on a word of the article
PrintSimilarFails ==
    /\ pc = "print_similar"
    /\ out' = out \o <<Line("Similar words:", <<>>)>>
    /\ pc' = "crashed"
    /\ UNCHANGED <<statement, keyphrase, wiki_page, page_doc, locations, ranked,
                   similar_words, scores, fetched, handed, last, stages>>

Next ==
    \/ TopicLoop
    \/ TopicLoopFails
    \/ TopicLoopEnds
    \/ ArticleLoop
    \/ ArticleLoopFails
    \/ ArticleLoopEnds
    \/ PrintWikiSummary
    \/ PrintWikiSummaryFails
    \/ Locate
    \/ LocateFails
    \/ PrintLocations
    \/ PrintSimilar
    \/ PrintSimilarFails

Spec == Init /\ [][Next]_vars

(***************************************************************************)
(* What the claims about the interaction loop say.                         *)
(***************************************************************************)
OutputStages == {"print_summary", "locate", "print_locations", "print_similar", "done"}
AllStages == {"location_extractor", "sort_locations_by_frequency", "find_similar_words"}

KindRank(kind) ==
    CASE kind = "Page Title" -> 1
      [] kind = "Page Summary" -> 2
      [] kind = "Page URL" -> 3
      [] kind = "Locations:" -> 4
      [] kind = "location" -> 5
      [] kind = "Similar words:" -> 6
      [] kind = "similar" -> 7

Printed(kind) == \E k \in DOMAIN out : out[k].kind = kind
TextsPrinted(kind) ==
    LET lines == SelectSeq(out, LAMBDA l : l.kind = kind)
    IN  [k \in DOMAIN lines |-> lines[k].text]

\* C1: get_wiki_article is never called with the extractor's failure signal
\* as its topic.
C1_NeverFetchesFailure == \A k \in fetched : k.found

C3_OnlyExistingArticles ==
    /\ wiki_page.page => wiki_page.exists
    /\ (pc \in OutputStages \/ out # <<>> \/ stages # {} \/ handed # {})
          => (wiki_page.page /\ wiki_page.exists /\ last.fetch = "found")
    /\ last.fetch = "missing" =>
          (last.prompted /\ ~ wiki_page.page /\ pc \in {"article_loop", "crashed"})

\* C3 happens: a fetch found no article, the user was asked again, and the
\* run has finished with an article fetched for another topic
C3_Witness ==
    /\ pc = "done"
    /\ Cardinality(fetched) >= 2
    /\ out # <<>>

\* C4: each title-cased entity text occurs in the extractor's list once per
\* span that holds a GPE token.
C4_OncePerSpan ==
    "location_extractor" \in stages =>
        LET gpe == {k \in DOMAIN page_doc :
                        \E t \in DOMAIN page_doc[k] : page_doc[k][t].ent_type = "GPE"}
        IN  /\ Range(locations) = {Title(ent_text(page_doc[k])) : k \in gpe}
            /\ \A name \in Range(locations) :
                  Occurrences(locations, name) =
                      Cardinality({k \in gpe : Title(ent_text(page_doc[k])) = name})

\* C9: no word find_similar_words returns is, ignoring case, the topic phrase
\* (the phrase as it reads: a returned word is stripped and never carries the
\* phrase's surrounding whitespace), and every returned word comes from an
\* article word whose score is above the threshold.
C9_TopicExcluded ==
    "find_similar_words" \in stages =>
        \A w \in similar_words :
            /\ Lower(w) # Lower(Strip(keyphrase.text))
            /\ \E x \in text_array(wiki_page.text) :
                  /\ Strip(Title(clean(x))) = w
                  /\ scores[clean(x)] > Threshold

\* C10: the topic handed to find_similar_words, and the topic held while the
\* results are produced, is the topic the accepted article was fetched with.
C10_TopicInSync ==
    /\ (wiki_page.page /\ pc \in OutputStages) => wiki_page.topic = keyphrase
    /\ \A k \in handed : wiki_page.page /\ k = wiki_page.topic

\* C10 happens: after a fetch that found nothing and a new topic, the
\* Similarity Finder has been called
C10_Witness ==
    /\ handed # {}
    /\ Cardinality(fetched) >= 2
    /\ \E k \in fetched : k # keyphrase

====
